---- MODULE Spec2Model ----
(***************************************************************************)
(* BitVault: wallets, the send path (TransactionService.createTransaction) *)
(* and the per-wallet transaction hash chain, modelled from                *)
(* backend/src/services/crypto.service.js and                              *)
(* backend/src/models/Transaction.model.js.                                *)
(*                                                                         *)
(* Node runs one request handler at a time but yields at every await, so   *)
(* each database round trip of createTransaction is one atomic step and    *)
(* two requests interleave between those steps.                            *)
(*                                                                         *)
(* SHA-256 is modelled as an injective function: a digest is the tuple of  *)
(* the hashed fields.  A timestamp is a logical clock that advances        *)
(* between any two inserts.  A random 256-bit id is a fresh number.        *)
(***************************************************************************)
EXTENDS Integers, Sequences, FiniteSets, TLC

\* ------------------------------------------------------------- bounds
MaxWallets == 2
MaxSends == 2
MaxTamper == 1
MaxDocs == 2
MaxTime == 3
MaxRegistrations == 2

\* ---------------------------------------------------- program constants
Fee == 10000
InitialBalance == 100000000

\* ------------------------------------------------------- input domains
Users == {1, 2}
Procs == {1, 2}
StorageTypes == {"hot", "cold"}
\* 50000: the README's example; 99990000: amount + fee is a new wallet's
\* balance; 59990000: two such sends overdraw a new wallet, one does not
Amounts == {50000, 99990000}
ConcAmounts == {50000, 59990000}

\* ------------------------------------------------------------ values
NULL == [h |-> <<>>]

\* P2PKH address of the key pair numbered k
Address(k) == [kind |-> "p2pkh", k |-> k]
\* a well-formed address of no wallet of the system
ForeignAddress == Address(0)
\* a string toOutputScript rejects
MalformedAddress == [kind |-> "malformed", k |-> 0]

\* the private key of pair k as 64 hex digits, the first of them not 5 (line
\* 731 takes a key that begins with 5, K or L for WIF)
HexKey(k) == [fmt |-> "hex", k |-> k]
WifKey(k) == [fmt |-> "wif", k |-> k]
NoKey == [fmt |-> "none", k |-> 0]

validateAddress(a) == a.kind = "p2pkh"

\* any 64 hex digits accepted
validateKeyPairAnyHex(key, publicAddress) == key.fmt = "hex"

\* deriveKeyPair + compare; false for anything that is not 64 hex digits of
\* the right key
validateKeyPair(key, publicAddress) ==
    key.fmt = "hex" /\ Address(key.k) = publicAddress

encryptPrivateKey(key) == [ct |-> key]

decryptPrivateKey(enc) == enc.ct

VARIABLES wallets, txs, clock, nextTxId, proc, calls, lastError, tampered,
          users, authProc, issued

vars == <<wallets, txs, clock, nextTxId, proc, calls, lastError, tampered,
          users, authProc, issued>>

\* ------------------------------------------------------------ hashing
\* the balance left out of the hashed fields
walletIntegrityHashNoBalance(w) ==
    [h |-> <<w.publicAddress, w.publicKey, w.storageType, w.createdAt>>]

walletIntegrityHash(w) ==
    [h |-> <<w.publicAddress, w.publicKey, w.balance, w.storageType, w.createdAt>>]

txIntegrityHash(t) ==
    [h |-> <<t.txId, t.type, t.amount, t.fee, t.fromAddress, t.toAddress,
             t.balanceAfter, t.previousTxHash, t.createdAt>>]

txVerifyIntegrity(t) == t.integrityHash = txIntegrityHash(t)

\* ------------------------------------------------- transaction queries
RECURSIVE SortByCreatedAt(_)
SortByCreatedAt(S) ==
    IF S = {} THEN <<>>
    ELSE LET first == CHOOSE t \in S : \A u \in S : t.createdAt <= u.createdAt
         IN <<first>> \o SortByCreatedAt(S \ {first})

\* Transaction.find({ wallet }).sort({ createdAt: 1 })
WalletTxs(store, walletId) ==
    SortByCreatedAt({store[i] : i \in {j \in 1..Len(store) : store[j].wallet = walletId}})

\* the wallet filter left out of the query: the newest transaction of all
generateChainHashAnyWallet(store, walletId) ==
    LET all == SortByCreatedAt({store[i] : i \in 1..Len(store)})
    IN IF Len(all) = 0 THEN NULL ELSE all[Len(all)].integrityHash

generateChainHash(store, walletId) ==
    LET chain == WalletTxs(store, walletId)
    IN IF Len(chain) = 0 THEN NULL ELSE chain[Len(chain)].integrityHash

generateTxId(n) == [id |-> n, suffix |-> ""]

receiveTxId(txId) == [id |-> txId.id, suffix |-> "-receive"]

\* Wallet.findOne({ publicAddress }): the wallet id, 0 for none
getWalletByAddress(ws, address) ==
    IF \E i \in 1..Len(ws) : ws[i].publicAddress = address
    THEN CHOOSE i \in 1..Len(ws) : ws[i].publicAddress = address
    ELSE 0

\* verifyTransactionChain lines 948-991: "WalletNotFound" for a wallet that
\* is not the caller's, else the per-entry results and the verdict
chainResults(chain) ==
    [i \in 1..Len(chain) |->
        LET previousHash == IF i = 1 THEN NULL ELSE chain[i - 1].integrityHash
        IN [txId |-> chain[i].txId,
            integrityValid |-> txVerifyIntegrity(chain[i]),
            chainLinkValid |-> (previousHash = NULL
                                \/ chain[i].previousTxHash = previousHash)]]

verifyTransactionChain(ws, store, walletId, userId) ==
    IF ~(walletId <= Len(ws) /\ ws[walletId].user = userId)
    THEN [error |-> "WalletNotFound", totalTransactions |-> 0, chainValid |-> FALSE,
          results |-> <<>>]
    ELSE LET results == chainResults(WalletTxs(store, walletId))
         IN [error |-> "none",
             totalTransactions |-> Len(results),
             chainValid |-> \A i \in 1..Len(results) :
                               results[i].integrityValid /\ results[i].chainLinkValid,
             results |-> results]

\* ------------------------------------------------------------ process
NoDoc == [balance |-> 0, transactionCount |-> 0, balanceModified |-> FALSE]

Idle == [pc |-> "idle", call |-> 0, txId |-> generateTxId(0), signingKey |-> NoKey,
         snapBalance |-> 0, prev |-> NULL, doc |-> NoDoc, rcpt |-> 0,
         rcptBalance |-> 0]

AllIdle == \A p \in Procs : proc[p].pc = "idle"

\* no error response is on its way out
Ready == lastError = "none"

\* ------------------------------------------------------------ accounts
Emails == {"a@x"}

Passwords == {"pw1", "pw2"}

\* the codes generateOTP can draw
Otps == {"111111", "222222"}

AuthProcs == {1, 2}

\* no User document for an email; id counts the documents created for it,
\* so that <<email, id>> stands for the _id of a document
NoUser == [exists |-> FALSE, id |-> 0, password |-> "", isVerified |-> FALSE,
           otp |-> "undefined", otpExpiry |-> 0]

\* an auth request slot: the handler running and its position, the request
\* body, the document the handler loaded, and the last response sent
AuthIdle == [pc |-> "idle", handler |-> "none", email |-> "", password |-> "",
             otp |-> "", doc |-> NoUser, status |-> 0, token |-> FALSE]

Init ==
    /\ wallets = <<>>
    /\ txs = <<>>
    /\ clock = 0
    /\ nextTxId = 0
    /\ proc = [p \in Procs |-> Idle]
    /\ calls = <<>>
    /\ lastError = "none"
    /\ tampered = <<>>
    /\ users = [e \in Emails |-> NoUser]
    /\ authProc = [p \in AuthProcs |-> AuthIdle]
    /\ issued = {}

\* ------------------------------------------------------- createWallet
\* the private key encrypted and stored whatever the storage type
newWalletAlwaysEncrypted(k, userId, storageType) ==
    LET w == [user |-> userId,
              publicAddress |-> Address(k),
              publicKey |-> k,
              storageType |-> storageType,
              encryptedPrivateKey |-> encryptPrivateKey(HexKey(k)),
              balance |-> InitialBalance,
              status |-> "active",
              transactionCount |-> 0,
              createdAt |-> k,
              integrityHash |-> NULL]
    IN [w EXCEPT !.integrityHash = walletIntegrityHash(w)]

newWallet(k, userId, storageType) ==
    LET w == [user |-> userId,
              publicAddress |-> Address(k),
              publicKey |-> k,
              storageType |-> storageType,
              encryptedPrivateKey |->
                  IF storageType = "hot" THEN encryptPrivateKey(HexKey(k)) ELSE NULL,
              balance |-> InitialBalance,
              status |-> "active",
              transactionCount |-> 0,
              createdAt |-> k,
              integrityHash |-> NULL]
    IN [w EXCEPT !.integrityHash = walletIntegrityHash(w)]

CreateWallet(userId, storageType) ==
    /\ Ready
    /\ Len(wallets) < MaxWallets
    /\ wallets' = Append(wallets, newWallet(Len(wallets) + 1, userId, storageType))
    /\ UNCHANGED <<txs, clock, nextTxId, proc, calls, tampered, users, authProc, issued, lastError>>

\* -------------------------------------------------- createTransaction
\* the fee left out of the debit
totalAmountNoFee(amount) == amount

\* lines 704-705
totalAmount(amount) == amount + Fee

\* the sender loaded whatever its status
validateSendAnyStatus(ws, userId, walletId, toAddress, amount, privateKey) ==
    IF ~(walletId <= Len(ws) /\ ws[walletId].user = userId)
    THEN "WalletNotFound"
    ELSE IF ~validateAddress(toAddress) THEN "InvalidAddress"
    ELSE IF ws[walletId].publicAddress = toAddress THEN "SelfTransferRejected"
    ELSE IF ws[walletId].balance < totalAmount(amount) THEN "InsufficientBalance"
    ELSE IF ws[walletId].storageType = "hot"
         THEN (IF ws[walletId].encryptedPrivateKey = NULL
               THEN "DecryptionFailed" ELSE "ok")
    ELSE IF privateKey = NoKey THEN "PrivateKeyRequired"
    ELSE IF privateKey.fmt # "hex" THEN "InvalidPrivateKeyFormat"
    ELSE IF ~validateKeyPair(privateKey, ws[walletId].publicAddress)
         THEN "InvalidPrivateKey"
    ELSE "ok"

\* the balance check made before the address checks
validateSendBalanceFirst(ws, userId, walletId, toAddress, amount, privateKey) ==
    IF ~(walletId <= Len(ws) /\ ws[walletId].user = userId
                             /\ ws[walletId].status = "active")
    THEN "WalletNotFound"
    ELSE IF ws[walletId].balance < totalAmount(amount) THEN "InsufficientBalance"
    ELSE IF ~validateAddress(toAddress) THEN "InvalidAddress"
    ELSE IF ws[walletId].publicAddress = toAddress THEN "SelfTransferRejected"
    ELSE IF ws[walletId].storageType = "hot"
         THEN (IF ws[walletId].encryptedPrivateKey = NULL
               THEN "DecryptionFailed" ELSE "ok")
    ELSE IF privateKey = NoKey THEN "PrivateKeyRequired"
    ELSE IF privateKey.fmt # "hex" THEN "InvalidPrivateKeyFormat"
    ELSE IF ~validateKeyPair(privateKey, ws[walletId].publicAddress)
         THEN "InvalidPrivateKey"
    ELSE "ok"

\* a balance equal to amount + fee rejected too
validateSendBalanceInclusive(ws, userId, walletId, toAddress, amount, privateKey) ==
    IF ~(walletId <= Len(ws) /\ ws[walletId].user = userId
                             /\ ws[walletId].status = "active")
    THEN "WalletNotFound"
    ELSE IF ~validateAddress(toAddress) THEN "InvalidAddress"
    ELSE IF ws[walletId].publicAddress = toAddress THEN "SelfTransferRejected"
    ELSE IF ws[walletId].balance <= totalAmount(amount) THEN "InsufficientBalance"
    ELSE IF ws[walletId].storageType = "hot"
         THEN (IF ws[walletId].encryptedPrivateKey = NULL
               THEN "DecryptionFailed" ELSE "ok")
    ELSE IF privateKey = NoKey THEN "PrivateKeyRequired"
    ELSE IF privateKey.fmt # "hex" THEN "InvalidPrivateKeyFormat"
    ELSE IF ~validateKeyPair(privateKey, ws[walletId].publicAddress)
         THEN "InvalidPrivateKey"
    ELSE "ok"

\* The checks made on the sender document before the first write, in the
\* order of the code; "ok" when all pass.
validateSend(ws, userId, walletId, toAddress, amount, privateKey) ==
    IF ~(walletId <= Len(ws) /\ ws[walletId].user = userId
                             /\ ws[walletId].status = "active")
    THEN "WalletNotFound"
    ELSE IF ~validateAddress(toAddress) THEN "InvalidAddress"
    ELSE IF ws[walletId].publicAddress = toAddress THEN "SelfTransferRejected"
    ELSE IF ws[walletId].balance < totalAmount(amount) THEN "InsufficientBalance"
    ELSE IF ws[walletId].storageType = "hot"
         THEN (IF ws[walletId].encryptedPrivateKey = NULL
               THEN "DecryptionFailed" ELSE "ok")
    ELSE IF privateKey = NoKey THEN "PrivateKeyRequired"
    ELSE IF privateKey.fmt # "hex" THEN "InvalidPrivateKeyFormat"
    ELSE IF ~validateKeyPair(privateKey, ws[walletId].publicAddress)
         THEN "InvalidPrivateKey"
    ELSE "ok"

signingKeyOf(w, privateKey) ==
    IF w.storageType = "hot" THEN decryptPrivateKey(w.encryptedPrivateKey)
    ELSE privateKey

signTransaction(key, txId) == [signer |-> key.k, txId |-> txId]

Balances(ws) == [i \in 1..Len(ws) |-> ws[i].balance]

\* createTransaction returns or throws: the request slot is free again
Finish(p, result) ==
    /\ proc' = [proc EXCEPT ![p] = Idle]
    /\ calls' = [calls EXCEPT ![proc[p].call].result = result]

\* lines 683-750: load the sender, validate, obtain the signing key, draw
\* the transaction id
BeginSend(p, userId, walletId, toAddress, amount, privateKey) ==
    LET verdict == validateSend(wallets, userId, walletId, toAddress, amount, privateKey)
    IN /\ Ready
       /\ proc[p].pc = "idle"
       /\ IF verdict # "ok"
          THEN /\ lastError' = verdict
               /\ UNCHANGED <<wallets, txs, clock, nextTxId, proc, calls, tampered, users, authProc, issued>>
          ELSE /\ Len(calls) < MaxSends
               /\ nextTxId' = nextTxId + 1
               /\ calls' = Append(calls,
                     [wallet |-> walletId, user |-> userId, toAddress |-> toAddress,
                      amount |-> amount, txId |-> generateTxId(nextTxId + 1),
                      before |-> Balances(wallets),
                      during |-> {proc[q].call : q \in {r \in Procs : proc[r].pc # "idle"}},
                      result |-> "running"])
               /\ proc' = [q \in Procs |->
                     IF q = p
                     THEN [Idle EXCEPT !.pc = "chain", !.call = Len(calls) + 1,
                              !.txId = generateTxId(nextTxId + 1),
                              !.signingKey = signingKeyOf(wallets[walletId], privateKey),
                              !.snapBalance = wallets[walletId].balance]
                     ELSE proc[q]]
               /\ UNCHANGED <<wallets, txs, clock, tampered, users, authProc, issued, lastError>>

\* line 753: Transaction.generateChainHash(walletId)
ReadChain(p) ==
    /\ Ready
    /\ proc[p].pc = "chain"
    /\ proc' = [proc EXCEPT ![p].pc = "createSend",
                            ![p].prev = generateChainHash(txs, calls[proc[p].call].wallet)]
    /\ UNCHANGED <<wallets, txs, clock, nextTxId, calls, tampered, users, authProc, issued, lastError>>

\* the integrity hash taken before the timestamp is set
newTransactionHashedFirst(fields, now) ==
    [fields EXCEPT !.integrityHash = txIntegrityHash(fields), !.createdAt = now]

\* a new document with the timestamp and the integrity hash the pre-save
\* hooks give it
newTransaction(fields, now) ==
    LET t == [fields EXCEPT !.createdAt = now]
    IN [t EXCEPT !.integrityHash = txIntegrityHash(t)]

\* lines 756-795: sign, compute newBalance, Transaction.create (send row)
CreateSendRow(p) ==
    LET c == calls[proc[p].call]
        sender == wallets[c.wallet]
        row == [wallet |-> c.wallet, user |-> c.user, txId |-> proc[p].txId,
                type |-> "send", status |-> "confirmed", confirmations |-> 6,
                errorMessage |-> "null", amount |-> c.amount,
                fee |-> Fee, fromAddress |-> sender.publicAddress,
                toAddress |-> c.toAddress,
                balanceAfter |-> proc[p].snapBalance - totalAmount(c.amount),
                signature |-> signTransaction(proc[p].signingKey, proc[p].txId),
                previousTxHash |-> proc[p].prev, createdAt |-> 0,
                integrityHash |-> NULL]
    IN /\ Ready
       /\ proc[p].pc = "createSend"
       /\ clock' = clock + 2
       /\ txs' = Append(txs, newTransaction(row, clock + 2))
       /\ proc' = [proc EXCEPT ![p].pc = "debitRead"]
       /\ UNCHANGED <<wallets, nextTxId, calls, tampered, users, authProc, issued, lastError>>

\* the subtraction without the balance re-check of lines 1554-1556
DebitReadUnchecked(p) ==
    LET c == calls[proc[p].call]
        w == wallets[c.wallet]
    IN /\ Ready
       /\ proc[p].pc = "debitRead"
       /\ proc' = [proc EXCEPT ![p].pc = "debitSave",
               ![p].doc = [balance |-> w.balance - totalAmount(c.amount),
                           transactionCount |-> w.transactionCount + 1,
                           balanceModified |-> totalAmount(c.amount) # 0]]
       /\ UNCHANGED <<wallets, txs, clock, nextTxId, calls, tampered, users, authProc, issued, lastError>>

\* updateBalance lines 1547-1563, 'subtract': Wallet.findById, the balance
\* re-check, the changes to the loaded document
DebitRead(p) ==
    LET c == calls[proc[p].call]
        w == wallets[c.wallet]
    IN /\ Ready
       /\ proc[p].pc = "debitRead"
       /\ IF w.balance < totalAmount(c.amount)
          THEN Finish(p, "InsufficientBalance")
          ELSE /\ proc' = [proc EXCEPT ![p].pc = "debitSave",
                  ![p].doc = [balance |-> w.balance - totalAmount(c.amount),
                              transactionCount |-> w.transactionCount + 1,
                              balanceModified |-> totalAmount(c.amount) # 0]]
               /\ UNCHANGED calls
       /\ UNCHANGED <<wallets, txs, clock, nextTxId, tampered, users, authProc, issued, lastError>>

\* the save without the pre-save hook
saveWalletNoHook(w, doc) ==
    [w EXCEPT !.balance = doc.balance, !.transactionCount = doc.transactionCount]

\* wallet.save(): $set of the modified paths; the pre-save hook rehashes
\* when balance is modified
saveWallet(w, doc) ==
    LET saved == [w EXCEPT !.balance = doc.balance,
                           !.transactionCount = doc.transactionCount]
    IN IF doc.balanceModified
       THEN [saved EXCEPT !.integrityHash = walletIntegrityHash(saved)]
       ELSE saved

\* updateBalance line 1565 for the sender
DebitSave(p) ==
    LET c == calls[proc[p].call]
    IN /\ Ready
       /\ proc[p].pc = "debitSave"
       /\ wallets' = [wallets EXCEPT ![c.wallet] = saveWallet(@, proc[p].doc)]
       /\ proc' = [proc EXCEPT ![p].pc = "findRecipient", ![p].doc = NoDoc]
       /\ UNCHANGED <<txs, clock, nextTxId, calls, tampered, users, authProc, issued, lastError>>

\* line 801: getWalletByAddress(toAddress); no recipient: the call returns
FindRecipient(p) ==
    LET c == calls[proc[p].call]
        r == getWalletByAddress(wallets, c.toAddress)
    IN /\ Ready
       /\ proc[p].pc = "findRecipient"
       /\ IF r = 0
          THEN Finish(p, "ok")
          ELSE /\ proc' = [proc EXCEPT ![p].pc = "recipientChain", ![p].rcpt = r,
                                       ![p].rcptBalance = wallets[r].balance]
               /\ UNCHANGED calls
       /\ UNCHANGED <<wallets, txs, clock, nextTxId, tampered, users, authProc, issued, lastError>>

\* line 821: generateChainHash(recipientWallet._id)
ReadRecipientChain(p) ==
    /\ Ready
    /\ proc[p].pc = "recipientChain"
    /\ proc' = [proc EXCEPT ![p].pc = "createReceive",
                            ![p].prev = generateChainHash(txs, proc[p].rcpt)]
    /\ UNCHANGED <<wallets, txs, clock, nextTxId, calls, tampered, users, authProc, issued, lastError>>

\* lines 805-824: Transaction.create (mirrored receive row)
CreateReceiveRow(p) ==
    LET c == calls[proc[p].call]
        row == [wallet |-> proc[p].rcpt, user |-> wallets[proc[p].rcpt].user,
                txId |-> receiveTxId(proc[p].txId),
                type |-> "receive", status |-> "confirmed", confirmations |-> 6,
                errorMessage |-> "null", amount |-> c.amount,
                fee |-> 0, fromAddress |-> wallets[c.wallet].publicAddress,
                toAddress |-> c.toAddress,
                balanceAfter |-> proc[p].rcptBalance + c.amount,
                signature |-> signTransaction(NoKey, generateTxId(0)),
                previousTxHash |-> proc[p].prev, createdAt |-> 0,
                integrityHash |-> NULL]
    IN /\ Ready
       /\ proc[p].pc = "createReceive"
       /\ clock' = clock + 2
       /\ txs' = Append(txs, newTransaction(row, clock + 2))
       /\ proc' = [proc EXCEPT ![p].pc = "creditRead"]
       /\ UNCHANGED <<wallets, nextTxId, calls, tampered, users, authProc, issued, lastError>>

\* updateBalance lines 1547-1563, 'add', for the recipient
CreditRead(p) ==
    LET c == calls[proc[p].call]
        w == wallets[proc[p].rcpt]
    IN /\ Ready
       /\ proc[p].pc = "creditRead"
       /\ proc' = [proc EXCEPT ![p].pc = "creditSave",
               ![p].doc = [balance |-> w.balance + c.amount,
                           transactionCount |-> w.transactionCount + 1,
                           balanceModified |-> c.amount # 0]]
       /\ UNCHANGED <<wallets, txs, clock, nextTxId, calls, tampered, users, authProc, issued, lastError>>

\* updateBalance line 1565 for the recipient; createTransaction returns
CreditSave(p) ==
    /\ Ready
    /\ proc[p].pc = "creditSave"
    /\ wallets' = [wallets EXCEPT ![proc[p].rcpt] = saveWallet(@, proc[p].doc)]
    /\ Finish(p, "ok")
    /\ UNCHANGED <<txs, clock, nextTxId, tampered, users, authProc, issued, lastError>>

SendStep(p) ==
    \/ ReadChain(p)
    \/ CreateSendRow(p)
    \/ DebitRead(p)
    \/ DebitSave(p)
    \/ FindRecipient(p)
    \/ ReadRecipientChain(p)
    \/ CreateReceiveRow(p)
    \/ CreditRead(p)
    \/ CreditSave(p)

ToAddresses == {Address(k) : k \in 0..Len(wallets)} \cup {MalformedAddress}

\* what a caller can pass as privateKey; a hot wallet's send never reads it
PrivateKeys(walletId) ==
    IF walletId <= Len(wallets) /\ wallets[walletId].storageType = "cold"
    THEN {NoKey} \cup {HexKey(k) : k \in 1..Len(wallets)} \cup {WifKey(walletId)}
    ELSE {NoKey}

SendRequest(p, amounts) ==
    \E userId \in Users, walletId \in 1..MaxWallets, toAddress \in ToAddresses,
       amount \in amounts :
        \E privateKey \in PrivateKeys(walletId) :
            BeginSend(p, userId, walletId, toAddress, amount, privateKey)

\* ------------------------------------------------------ specifications
\* A rejected request throws out of createTransaction; the controller's catch
\* and the error middleware run in the same turn of the event loop, before any
\* other handler: the error response leaves before anything else happens.
RespondError ==
    /\ lastError # "none"
    /\ lastError' = "none"
    /\ UNCHANGED <<wallets, txs, clock, nextTxId, proc, calls, tampered, users, authProc, issued>>

\* The createWallet requests made: the first wallet is a hot wallet of user
\* 1, the second a cold wallet of user 2, any further one a hot wallet of
\* user 1.
NewWallet ==
    \E userId \in Users, storageType \in StorageTypes :
        /\ userId = (IF Len(wallets) = 1 THEN 2 ELSE 1)
        /\ storageType = (IF Len(wallets) = 1 THEN "cold" ELSE "hot")
        /\ CreateWallet(userId, storageType)

\* Requests served one after the other: a send starts only when no other
\* send is in progress.
Next ==
    \/ NewWallet
    \/ AllIdle /\ SendRequest(1, Amounts)
    \/ SendStep(1)
    \/ RespondError

Spec == Init /\ [][Next]_vars

\* Requests served concurrently: sends interleave at every await; two of the
\* amounts are sent.
NextConc ==
    \/ NewWallet
    \/ \E p \in Procs : SendRequest(p, ConcAmounts)
    \/ \E p \in Procs : SendStep(p)
    \/ RespondError

SpecConc == Init /\ [][NextConc]_vars

\* ------------------------------------------- edits made in the database
\* Someone with write access to MongoDB changes the transactions collection
\* behind the service.  tampered lists the edits made.
RemoveAt(seq, i) == SubSeq(seq, 1, i - 1) \o SubSeq(seq, i + 1, Len(seq))

\* a transaction document is deleted
TamperDelete(i) ==
    /\ Ready
    /\ Len(tampered) < MaxTamper
    /\ i \in 1..Len(txs)
    /\ txs' = RemoveAt(txs, i)
    /\ tampered' = Append(tampered,
          [kind |-> "delete", wallet |-> txs[i].wallet, txId |-> txs[i].txId])
    /\ UNCHANGED <<wallets, clock, nextTxId, proc, calls, lastError, users, authProc, issued>>

\* a hashed field of a stored transaction is changed, the hash is left
TamperAmount(i) ==
    /\ Ready
    /\ Len(tampered) < MaxTamper
    /\ i \in 1..Len(txs)
    /\ txs' = [txs EXCEPT ![i].amount = @ + 1]
    /\ tampered' = Append(tampered,
          [kind |-> "edit", wallet |-> txs[i].wallet, txId |-> txs[i].txId])
    /\ UNCHANGED <<wallets, clock, nextTxId, proc, calls, lastError, users, authProc, issued>>

\* a send stores at most two rows
MaxRows == 2 * MaxSends

ForgedTxId == [id |-> 0, suffix |-> "-forged"]

StoredHashes == {NULL} \cup {txs[i].integrityHash : i \in 1..Len(txs)}

\* a forged transaction is inserted into a wallet's chain before its entry
\* number k (after the last one for k = length + 1), with a previousTxHash
\* that is not the hash of the entry before it; rehashed says whether the
\* forger could compute the integrity hash
TamperSplice(walletId, k, previousTxHash, rehashed) ==
    LET chain == WalletTxs(txs, walletId)
        correct == IF k = 1 THEN NULL ELSE chain[k - 1].integrityHash
        at == IF k = 1 THEN chain[1].createdAt - 1 ELSE chain[k - 1].createdAt + 1
        row == [wallet |-> walletId, user |-> wallets[walletId].user,
                txId |-> ForgedTxId, type |-> "receive", status |-> "confirmed",
                confirmations |-> 6, errorMessage |-> "null",
                amount |-> 1, fee |-> 0, fromAddress |-> ForeignAddress,
                toAddress |-> wallets[walletId].publicAddress,
                balanceAfter |-> wallets[walletId].balance,
                signature |-> signTransaction(NoKey, generateTxId(0)),
                previousTxHash |-> previousTxHash, createdAt |-> at,
                integrityHash |-> NULL]
    IN /\ Ready
       /\ Len(tampered) < MaxTamper
       /\ walletId \in 1..Len(wallets)
       /\ Len(chain) >= 1
       /\ k \in 1..Len(chain) + 1
       /\ previousTxHash \in StoredHashes \ {correct}
       /\ txs' = Append(txs, IF rehashed
                             THEN [row EXCEPT !.integrityHash = txIntegrityHash(row)]
                             ELSE row)
       /\ tampered' = Append(tampered,
             [kind |-> "splice", wallet |-> walletId, txId |-> ForgedTxId])
       /\ UNCHANGED <<wallets, clock, nextTxId, proc, calls, lastError, users, authProc, issued>>

\* Sends served one after the other, one amount, and edits made in the
\* database at any moment.
NextTamper ==
    \/ NewWallet
    \/ AllIdle /\ SendRequest(1, {50000})
    \/ SendStep(1)
    \/ RespondError
    \/ \E i \in 1..MaxRows : TamperDelete(i)
    \/ \E i \in 1..MaxRows : TamperAmount(i)
    \/ \E walletId \in 1..MaxWallets, k \in 1..(MaxRows + 1),
          previousTxHash \in StoredHashes, rehashed \in BOOLEAN :
            TamperSplice(walletId, k, previousTxHash, rehashed)

SpecTamper == Init /\ [][NextTamper]_vars

\* ----------------------------------------------- other wallet operations
walletVerifyIntegrity(w) == w.integrityHash = walletIntegrityHash(w)

\* lines 1572-1588: Wallet.findById, verifyIntegrity
verifyWalletIntegrity(ws, walletId) ==
    IF walletId \notin 1..Len(ws)
    THEN [error |-> "WalletNotFound", isValid |-> FALSE]
    ELSE [error |-> "none", isValid |-> walletVerifyIntegrity(ws[walletId])]

\* the wallet controller's verifyWallet: the service is called with
\* req.params.id alone; req.user.id is not passed on
verifyWallet(ws, reqUserId, id) == verifyWalletIntegrity(ws, id)

Reverse(seq) == [i \in 1..Len(seq) |-> seq[Len(seq) + 1 - i]]

\* getWalletTransactions with the default options: "WalletNotFound" for a
\* wallet that is not the caller's, else the wallet's transactions, newest
\* first
getWalletTransactions(ws, store, walletId, userId) ==
    IF ~(walletId <= Len(ws) /\ ws[walletId].user = userId)
    THEN [error |-> "WalletNotFound", transactions |-> <<>>, total |-> 0]
    ELSE [error |-> "none",
          transactions |-> Reverse(WalletTxs(store, walletId)),
          total |-> Len(WalletTxs(store, walletId))]

Statuses == {"active", "frozen", "archived"}

\* balance among the fields a caller may set
allowedUpdatesWithBalance ==
    {"name", "description", "color", "tags", "status", "balance"}

\* line 1632
allowedUpdates == {"name", "description", "color", "tags", "status"}

\* what a caller passes as updates: the fields supplied and their values
Updates ==
    {[supplied |-> {"status"}, status |-> st, balance |-> 0] : st \in Statuses}
    \cup {[supplied |-> {"balance"}, status |-> "active", balance |-> 999999999],
          [supplied |-> {"status", "balance", "storageType", "integrityHash"},
           status |-> "frozen", balance |-> 999999999]}

\* lines 1633-1639
filteredUpdates(updates) == updates.supplied \cap allowedUpdates

\* { $set: filteredUpdates } on the fields of the model
applyUpdates(w, updates) ==
    [w EXCEPT !.status = IF "status" \in filteredUpdates(updates)
                         THEN updates.status ELSE @,
              !.balance = IF "balance" \in filteredUpdates(updates)
                          THEN updates.balance ELSE @]

\* lines 1631-1652: findOneAndUpdate({ _id, user }, { $set: filteredUpdates });
\* no save hook runs
UpdateWallet(walletId, userId, updates) ==
    /\ Ready
    /\ IF walletId <= Len(wallets) /\ wallets[walletId].user = userId
       THEN /\ wallets' = [wallets EXCEPT ![walletId] = applyUpdates(@, updates)]
            /\ UNCHANGED lastError
       ELSE /\ lastError' = "Wallet not found"
            /\ UNCHANGED wallets
    /\ UNCHANGED <<txs, clock, nextTxId, proc, calls, tampered, users, authProc, issued>>

\* lines 1657-1669: findOneAndUpdate({ _id, user }, { $set: { status: 'archived' } })
ArchiveWallet(walletId, userId) ==
    /\ Ready
    /\ IF walletId <= Len(wallets) /\ wallets[walletId].user = userId
       THEN /\ wallets' = [wallets EXCEPT ![walletId].status = "archived"]
            /\ UNCHANGED lastError
       ELSE /\ lastError' = "Wallet not found"
            /\ UNCHANGED wallets
    /\ UNCHANGED <<txs, clock, nextTxId, proc, calls, tampered, users, authProc, issued>>

\* the private key returned whatever the storage type
createWalletResponseAlways(w) ==
    [wallet |-> w,
     privateKey |-> HexKey(w.publicKey),
     privateKeyWIF |-> WifKey(w.publicKey)]

\* lines 1476-1490: what createWallet returns for the wallet it stored; the
\* key pair is the one numbered by the wallet's public key
createWalletResponse(w) ==
    [wallet |-> w,
     privateKey |-> IF w.storageType = "cold" THEN HexKey(w.publicKey) ELSE NoKey,
     privateKeyWIF |-> IF w.storageType = "cold" THEN WifKey(w.publicKey) ELSE NoKey]

\* lines 1594-1619
getPrivateKey(ws, walletId, userId) ==
    IF ~(walletId <= Len(ws) /\ ws[walletId].user = userId)
    THEN [error |-> "WalletNotFound", privateKey |-> NoKey]
    ELSE IF ws[walletId].storageType # "hot"
    THEN [error |-> "ColdWallet", privateKey |-> NoKey]
    ELSE IF ws[walletId].encryptedPrivateKey = NULL
    THEN [error |-> "PrivateKeyNotAvailable", privateKey |-> NoKey]
    ELSE [error |-> "none",
          privateKey |-> decryptPrivateKey(ws[walletId].encryptedPrivateKey)]

\* lines 1522-1533: Wallet.findOne({ _id, user }); encryptedPrivateKey is
\* select: false and is not loaded
getWalletById(ws, walletId, userId) ==
    IF ~(walletId <= Len(ws) /\ ws[walletId].user = userId)
    THEN [error |-> "WalletNotFound", wallet |-> [status |-> "none"]]
    ELSE [error |-> "none",
          wallet |-> [f \in DOMAIN ws[walletId] \ {"encryptedPrivateKey"} |->
                         ws[walletId][f]]]

\* lines 830-835: what createTransaction returns for the send row it stored
createTransactionResponse(t) ==
    [transaction |-> t,
     message |-> "Transaction completed successfully",
     newBalance |-> t.balanceAfter]

\* Requests served one after the other: sends of one amount, and the
\* wallet's owner or another user changing its status between them.
NextWallet ==
    \/ NewWallet
    \/ AllIdle /\ SendRequest(1, {50000})
    \/ SendStep(1)
    \/ RespondError
    \/ \E walletId \in 1..MaxWallets, userId \in Users, updates \in Updates :
          AllIdle /\ UpdateWallet(walletId, userId, updates)
    \/ \E walletId \in 1..MaxWallets, userId \in Users :
          AllIdle /\ ArchiveWallet(walletId, userId)

SpecWallet == Init /\ [][NextWallet]_vars


\* ---------------------------------- edits made to wallets and to fields
BalanceEdits == {"flip", "readme"}

\* the lowest bit of the balance flipped, or the README's 999999999
editedBalance(b, how) ==
    IF how = "flip" THEN (IF b % 2 = 0 THEN b + 1 ELSE b - 1) ELSE 999999999

\* the balance of a stored wallet is changed, the hash is left
TamperWalletBalance(walletId, how) ==
    /\ Ready
    /\ Len(tampered) < MaxTamper
    /\ walletId \in 1..Len(wallets)
    /\ editedBalance(wallets[walletId].balance, how) # wallets[walletId].balance
    /\ wallets' = [wallets EXCEPT ![walletId].balance = editedBalance(@, how)]
    /\ tampered' = Append(tampered,
          [kind |-> "walletBalance", wallet |-> walletId, txId |-> ForgedTxId,
           before |-> wallets[walletId], restored |-> FALSE])
    /\ UNCHANGED <<txs, clock, nextTxId, proc, calls, lastError, users, authProc, issued>>

\* the balance found before the edit is written back
RestoreWalletBalance(e) ==
    /\ Ready
    /\ e \in 1..Len(tampered)
    /\ tampered[e].kind = "walletBalance"
    /\ ~tampered[e].restored
    /\ wallets' = [wallets EXCEPT
          ![tampered[e].wallet].balance = tampered[e].before.balance]
    /\ tampered' = [tampered EXCEPT ![e].restored = TRUE]
    /\ UNCHANGED <<txs, clock, nextTxId, proc, calls, lastError, users, authProc, issued>>

\* the status of a stored wallet is changed
TamperWalletStatus(walletId, status) ==
    /\ Ready
    /\ Len(tampered) < MaxTamper
    /\ walletId \in 1..Len(wallets)
    /\ status # wallets[walletId].status
    /\ wallets' = [wallets EXCEPT ![walletId].status = status]
    /\ tampered' = Append(tampered,
          [kind |-> "walletStatus", wallet |-> walletId, txId |-> ForgedTxId,
           before |-> wallets[walletId], restored |-> FALSE])
    /\ UNCHANGED <<txs, clock, nextTxId, proc, calls, lastError, users, authProc, issued>>

TxFields == {"wallet", "status", "signature", "balanceAfter"}

\* a stored transaction with one field changed
editedTx(t, field) ==
    IF field = "wallet" THEN [t EXCEPT !.wallet = IF @ = 1 THEN 2 ELSE 1]
    ELSE IF field = "status" THEN [t EXCEPT !.status = "failed"]
    ELSE IF field = "signature"
         THEN [t EXCEPT !.signature = signTransaction(NoKey, ForgedTxId)]
    ELSE [t EXCEPT !.balanceAfter = @ + 1]

\* one field of a stored transaction is changed, the hash is left
TamperTxField(i, field) ==
    /\ Ready
    /\ Len(tampered) < MaxTamper
    /\ i \in 1..Len(txs)
    /\ Len(wallets) >= 2
    /\ txs' = [txs EXCEPT ![i] = editedTx(@, field)]
    /\ tampered' = Append(tampered,
          [kind |-> "txField", wallet |-> txs[i].wallet, txId |-> txs[i].txId,
           before |-> txs[i], restored |-> FALSE])
    /\ UNCHANGED <<wallets, clock, nextTxId, proc, calls, lastError, users, authProc, issued>>

\* Sends served one after the other, one amount, and edits of single fields
\* made in the database between them.
NextFieldTamper ==
    \/ NewWallet
    \/ AllIdle /\ SendRequest(1, {50000})
    \/ SendStep(1)
    \/ RespondError
    \/ \E walletId \in 1..MaxWallets, how \in BalanceEdits :
          AllIdle /\ TamperWalletBalance(walletId, how)
    \/ \E e \in 1..MaxTamper : AllIdle /\ RestoreWalletBalance(e)
    \/ \E walletId \in 1..MaxWallets, status \in Statuses :
          AllIdle /\ TamperWalletStatus(walletId, status)
    \/ \E i \in 1..MaxRows, field \in TxFields :
          AllIdle /\ TamperTxField(i, field)

SpecFieldTamper == Init /\ [][NextFieldTamper]_vars


\* amount + fee is a new wallet's balance, and one satoshi more
EdgeAmounts == {InitialBalance - Fee, InitialBalance - Fee + 1}

\* Sends served one after the other, of amounts at the edge of the balance
\* check.
NextEdge ==
    \/ NewWallet
    \/ AllIdle /\ SendRequest(1, EdgeAmounts)
    \/ SendStep(1)
    \/ RespondError

SpecEdge == Init /\ [][NextEdge]_vars

\* ---------------------------------------------- transaction documents
\* the hash set on every save
txPreSaveAlways(t, isNew) == [t EXCEPT !.integrityHash = txIntegrityHash(t)]

\* the pre-save hook of a transaction: the hash is set on a new document only
txPreSave(t, isNew) ==
    IF isNew THEN [t EXCEPT !.integrityHash = txIntegrityHash(t)] ELSE t

\* Transaction.model.js 222-232
simulateConfirmation(t) ==
    IF t.confirmations < 6
    THEN LET n == t.confirmations + 1
         IN txPreSave([t EXCEPT !.confirmations = n,
                                !.status = IF n >= 1 /\ @ = "pending"
                                           THEN "confirmed" ELSE @],
                      FALSE)
    ELSE t

\* Transaction.model.js 235-240
markAsFailed(t, errorMessage) ==
    txPreSave([t EXCEPT !.status = "failed", !.errorMessage = errorMessage], FALSE)

ErrorMessages == {"Insufficient funds"}

\* status and confirmations of a new transaction: the schema defaults, or
\* what createTransaction passes
NewTxStates == {<<"pending", 0>>, <<"confirmed", 6>>}

\* Transaction.create of a send of the wallet to a foreign address
CreateTransactionDoc(walletId, status, confirmations) ==
    LET fields == [wallet |-> walletId, user |-> wallets[walletId].user,
                   txId |-> generateTxId(nextTxId + 1),
                   type |-> "send", status |-> status,
                   confirmations |-> confirmations,
                   errorMessage |-> "null", amount |-> 1, fee |-> Fee,
                   fromAddress |-> wallets[walletId].publicAddress,
                   toAddress |-> ForeignAddress,
                   balanceAfter |-> wallets[walletId].balance,
                   signature |-> signTransaction(NoKey, generateTxId(0)),
                   previousTxHash |-> generateChainHash(txs, walletId),
                   createdAt |-> 0, integrityHash |-> NULL]
    IN /\ Ready
       /\ walletId \in 1..Len(wallets)
       /\ Len(txs) < MaxDocs
       /\ nextTxId' = nextTxId + 1
       /\ clock' = clock + 2
       /\ txs' = Append(txs, newTransaction(fields, clock + 2))
       /\ UNCHANGED <<wallets, proc, calls, tampered, users, authProc, issued, lastError>>

\* a stored transaction is loaded, simulateConfirmation() is called on it
SimulateConfirmation(i) ==
    /\ Ready
    /\ i \in 1..Len(txs)
    /\ txs' = [txs EXCEPT ![i] = simulateConfirmation(@)]
    /\ UNCHANGED <<wallets, clock, nextTxId, proc, calls, tampered, users, authProc, issued, lastError>>

\* a stored transaction is loaded, markAsFailed(errorMessage) is called on it
MarkAsFailed(i, errorMessage) ==
    /\ Ready
    /\ i \in 1..Len(txs)
    /\ txs' = [txs EXCEPT ![i] = markAsFailed(@, errorMessage)]
    /\ UNCHANGED <<wallets, clock, nextTxId, proc, calls, tampered, users, authProc, issued, lastError>>

\* Transactions of wallet 1 created through the model, status transitions
\* of stored transactions, and edits of a stored amount made in the database.
NextTx ==
    \/ NewWallet
    \/ \E st \in NewTxStates : CreateTransactionDoc(1, st[1], st[2])
    \/ \E i \in 1..MaxDocs : SimulateConfirmation(i)
    \/ \E i \in 1..MaxDocs, errorMessage \in ErrorMessages :
          MarkAsFailed(i, errorMessage)
    \/ \E i \in 1..MaxDocs : TamperAmount(i)

SpecTx == Init /\ [][NextTx]_vars

\* --------------------------------------------------- auth controller
\* otpExpiry = Date.now() + 10 minutes, on the scale of clock
OtpLifetime == 2

\* String.prototype.trim on the request's otp
trim(otp) == IF otp = " 111111 " THEN "111111" ELSE otp

\* what a caller can pass as otp
OtpInputs == Otps \cup {"", " 111111 "}

WalletsUnchanged ==
    UNCHANGED <<wallets, txs, nextTxId, proc, calls, lastError, tampered>>

Request(handler, email) == [AuthIdle EXCEPT !.handler = handler, !.email = email]

\* res.status(status).json(...), with or without data.token
Respond(r, status, token) ==
    [r EXCEPT !.pc = "idle", !.password = "", !.otp = "", !.doc = NoUser,
              !.status = status, !.token = token]

\* the document a handler loaded is still the one stored under its _id
Stored(p) ==
    /\ users[authProc[p].email].exists
    /\ users[authProc[p].email].id = authProc[p].doc.id

\* user.generateAuthToken() on the document the handler holds
generateAuthToken(email, doc, by) ==
    [email |-> email, id |-> doc.id, by |-> by, verified |-> doc.isVerified]

\* register lines 16-40: User.findOne, 400 for a registered email; else the
\* code and its expiry are drawn and User.create is called
RegisterFind(p, email, password, otp) ==
    LET r == Request("register", email)
    IN /\ authProc[p].pc = "idle"
       /\ IF users[email].exists
          THEN authProc' = [authProc EXCEPT ![p] = Respond(r, 400, FALSE)]
          ELSE authProc' = [authProc EXCEPT ![p] =
                   [r EXCEPT !.pc = "create",
                             !.doc = [exists |-> TRUE, id |-> 0, password |-> password,
                                      isVerified |-> FALSE, otp |-> otp,
                                      otpExpiry |-> clock + OtpLifetime]]]
       /\ UNCHANGED <<users, issued, clock>>
       /\ WalletsUnchanged

\* register lines 32-44: User.create stores the document (email is a unique
\* key: a second document for the email is refused), then sendOTPEmail
RegisterCreate(p) ==
    LET email == authProc[p].email
    IN /\ authProc[p].pc = "create"
       /\ IF users[email].exists
          THEN /\ authProc' = [authProc EXCEPT ![p] = Respond(@, 500, FALSE)]
               /\ UNCHANGED users
          ELSE /\ users[email].id < MaxRegistrations
               /\ users' = [users EXCEPT ![email] =
                               [authProc[p].doc EXCEPT !.id = users[email].id + 1]]
               /\ authProc' = [authProc EXCEPT ![p].pc = "mail",
                                               ![p].doc.id = users[email].id + 1]
       /\ UNCHANGED <<issued, clock>>
       /\ WalletsUnchanged

\* register lines 43-63: the mail went out: 201 without a token; it did
\* not: User.findByIdAndDelete is called
RegisterMail(p, sent) ==
    /\ authProc[p].pc = "mail"
    /\ authProc' = [authProc EXCEPT ![p] =
                       IF sent THEN Respond(@, 201, FALSE) ELSE [@ EXCEPT !.pc = "delete"]]
    /\ UNCHANGED <<users, issued, clock>>
    /\ WalletsUnchanged

\* register lines 47-51: the document is deleted, 500
RegisterDelete(p) ==
    LET email == authProc[p].email
    IN /\ authProc[p].pc = "delete"
       /\ users' = IF Stored(p)
                   THEN [users EXCEPT ![email] = [NoUser EXCEPT !.id = users[email].id]]
                   ELSE users
       /\ authProc' = [authProc EXCEPT ![p] = Respond(@, 500, FALSE)]
       /\ UNCHANGED <<issued, clock>>
       /\ WalletsUnchanged

\* a login that does not look at isVerified
LoginFindUnverified(p, email, password, locked) ==
    LET r == [Request("login", email) EXCEPT !.password = password]
        user == users[email]
    IN /\ authProc[p].pc = "idle"
       /\ authProc' = [authProc EXCEPT ![p] =
              IF ~user.exists THEN Respond(r, 401, FALSE)
              ELSE IF locked THEN Respond(r, 423, FALSE)
              ELSE [r EXCEPT !.pc = "compare", !.doc = user]]
       /\ UNCHANGED <<users, issued, clock>>
       /\ WalletsUnchanged

\* login lines 77-104: User.findOne; 401 for no user, 403 for an unverified
\* one, 423 for a locked one; else comparePassword is called
LoginFind(p, email, password, locked) ==
    LET r == [Request("login", email) EXCEPT !.password = password]
        user == users[email]
    IN /\ authProc[p].pc = "idle"
       /\ authProc' = [authProc EXCEPT ![p] =
              IF ~user.exists THEN Respond(r, 401, FALSE)
              ELSE IF ~user.isVerified THEN Respond(r, 403, FALSE)
              ELSE IF locked THEN Respond(r, 423, FALSE)
              ELSE [r EXCEPT !.pc = "compare", !.doc = user]]
       /\ UNCHANGED <<users, issued, clock>>
       /\ WalletsUnchanged

\* login lines 107-136: comparePassword; 401 after incrementLoginAttempts for
\* a wrong password, else resetLoginAttempts and 200 with a token
LoginCompare(p) ==
    LET r == authProc[p]
    IN /\ r.pc = "compare"
       /\ IF r.password # r.doc.password
          THEN /\ authProc' = [authProc EXCEPT ![p] = Respond(@, 401, FALSE)]
               /\ UNCHANGED issued
          ELSE /\ issued' = issued \cup {generateAuthToken(r.email, r.doc, "login")}
               /\ authProc' = [authProc EXCEPT ![p] = Respond(@, 200, TRUE)]
       /\ UNCHANGED <<users, clock>>
       /\ WalletsUnchanged

\* verifyOTP lines 265-322: the checks on the request and on the loaded
\* document in their order; a code that passes them: the changes to the
\* document, and save is called
VerifyFind(p, email, otp) ==
    LET r == [Request("verifyOTP", email) EXCEPT !.otp = otp]
        user == users[email]
    IN /\ authProc[p].pc = "idle"
       /\ authProc' = [authProc EXCEPT ![p] =
              IF otp = "" THEN Respond(r, 400, FALSE)
              ELSE IF ~user.exists THEN Respond(r, 404, FALSE)
              ELSE IF user.isVerified THEN Respond(r, 400, FALSE)
              ELSE IF user.otp = "undefined" \/ user.otpExpiry = 0
                   THEN Respond(r, 400, FALSE)
              ELSE IF user.otpExpiry < clock THEN Respond(r, 400, FALSE)
              ELSE IF user.otp # trim(otp) THEN Respond(r, 400, FALSE)
              ELSE [r EXCEPT !.pc = "verifySave",
                             !.doc = [user EXCEPT !.isVerified = TRUE,
                                                  !.otp = "undefined",
                                                  !.otpExpiry = 0]]]
       /\ UNCHANGED <<users, issued, clock>>
       /\ WalletsUnchanged

\* verifyOTP lines 322-347: save writes the modified paths (it fails when
\* the document is gone), then the token and 200
VerifySave(p) ==
    LET r == authProc[p]
    IN /\ r.pc = "verifySave"
       /\ IF Stored(p)
          THEN /\ users' = [users EXCEPT ![r.email].isVerified = r.doc.isVerified,
                                         ![r.email].otp = r.doc.otp,
                                         ![r.email].otpExpiry = r.doc.otpExpiry]
               /\ issued' = issued \cup {generateAuthToken(r.email, r.doc, "verifyOTP")}
               /\ authProc' = [authProc EXCEPT ![p] = Respond(@, 200, TRUE)]
          ELSE /\ authProc' = [authProc EXCEPT ![p] = Respond(@, 500, FALSE)]
               /\ UNCHANGED <<users, issued>>
       /\ UNCHANGED clock
       /\ WalletsUnchanged

\* resendOTP lines 359-390: User.findOne; 404 for no user, 400 for a
\* verified one; else a new code and expiry on the document, and save is
\* called
ResendFind(p, email, otp) ==
    LET r == Request("resendOTP", email)
        user == users[email]
    IN /\ authProc[p].pc = "idle"
       /\ authProc' = [authProc EXCEPT ![p] =
              IF ~user.exists THEN Respond(r, 404, FALSE)
              ELSE IF user.isVerified THEN Respond(r, 400, FALSE)
              ELSE [r EXCEPT !.pc = "resendSave",
                             !.doc = [user EXCEPT !.otp = otp,
                                                  !.otpExpiry = clock + OtpLifetime]]]
       /\ UNCHANGED <<users, issued, clock>>
       /\ WalletsUnchanged

\* resendOTP lines 390-394: save writes otp and otpExpiry, then sendOTPEmail
ResendSave(p) ==
    LET r == authProc[p]
    IN /\ r.pc = "resendSave"
       /\ IF Stored(p)
          THEN /\ users' = [users EXCEPT ![r.email].otp = r.doc.otp,
                                         ![r.email].otpExpiry = r.doc.otpExpiry]
               /\ authProc' = [authProc EXCEPT ![p].pc = "resendMail"]
          ELSE /\ authProc' = [authProc EXCEPT ![p] = Respond(@, 500, FALSE)]
               /\ UNCHANGED users
       /\ UNCHANGED <<issued, clock>>
       /\ WalletsUnchanged

\* resendOTP lines 393-405: 200 when the mail went out, else 500
ResendMail(p, sent) ==
    /\ authProc[p].pc = "resendMail"
    /\ authProc' = [authProc EXCEPT ![p] = Respond(@, IF sent THEN 200 ELSE 500, FALSE)]
    /\ UNCHANGED <<users, issued, clock>>
    /\ WalletsUnchanged

\* the protect middleware of the route: the request carries a token of a
\* stored user
protect(email) ==
    \E t \in issued :
        t.email = email /\ users[email].exists /\ users[email].id = t.id

\* changePassword lines 208-224: User.findById, comparePassword; 400 for a
\* wrong current password; else the new password on the document, and save
\* is called
ChangePasswordFind(p, email, currentPassword, newPassword) ==
    LET r == Request("changePassword", email)
        user == users[email]
    IN /\ authProc[p].pc = "idle"
       /\ protect(email)
       /\ authProc' = [authProc EXCEPT ![p] =
              IF currentPassword # user.password THEN Respond(r, 400, FALSE)
              ELSE [r EXCEPT !.pc = "passwordSave",
                             !.doc = [user EXCEPT !.password = newPassword]]]
       /\ UNCHANGED <<users, issued, clock>>
       /\ WalletsUnchanged

\* changePassword lines 224-234: save writes the password, then a new token
ChangePasswordSave(p) ==
    LET r == authProc[p]
    IN /\ r.pc = "passwordSave"
       /\ IF Stored(p)
          THEN /\ users' = [users EXCEPT ![r.email].password = r.doc.password]
               /\ issued' = issued \cup
                      {generateAuthToken(r.email, r.doc, "changePassword")}
               /\ authProc' = [authProc EXCEPT ![p] = Respond(@, 200, TRUE)]
          ELSE /\ authProc' = [authProc EXCEPT ![p] = Respond(@, 500, FALSE)]
               /\ UNCHANGED <<users, issued>>
       /\ UNCHANGED clock
       /\ WalletsUnchanged

\* time passes
Tick ==
    /\ clock < MaxTime
    /\ clock' = clock + 1
    /\ UNCHANGED <<users, authProc, issued>>
    /\ WalletsUnchanged

\* Auth requests served concurrently: handlers interleave at every await.
NextAuth ==
    \/ \E p \in AuthProcs, email \in Emails, password \in Passwords, otp \in Otps :
          RegisterFind(p, email, password, otp)
    \/ \E p \in AuthProcs : RegisterCreate(p)
    \/ \E p \in AuthProcs, sent \in BOOLEAN : RegisterMail(p, sent)
    \/ \E p \in AuthProcs : RegisterDelete(p)
    \/ \E p \in AuthProcs, email \in Emails, password \in Passwords, locked \in BOOLEAN :
          LoginFind(p, email, password, locked)
    \/ \E p \in AuthProcs : LoginCompare(p)
    \/ \E p \in AuthProcs, email \in Emails, otp \in OtpInputs : VerifyFind(p, email, otp)
    \/ \E p \in AuthProcs : VerifySave(p)
    \/ \E p \in AuthProcs, email \in Emails, otp \in Otps : ResendFind(p, email, otp)
    \/ \E p \in AuthProcs : ResendSave(p)
    \/ \E p \in AuthProcs, sent \in BOOLEAN : ResendMail(p, sent)
    \/ \E p \in AuthProcs, email \in Emails, currentPassword, newPassword \in Passwords :
          ChangePasswordFind(p, email, currentPassword, newPassword)
    \/ \E p \in AuthProcs : ChangePasswordSave(p)
    \/ Tick

SpecAuth == Init /\ [][NextAuth]_vars

\* ================================================================ claims
RECURSIVE SumSeq(_)
SumSeq(q) == IF q = <<>> THEN 0 ELSE Head(q) + SumSeq(Tail(q))

LastCall == calls[Len(calls)]

\* the last send has returned successfully and nothing is in progress
LastSendDone == Len(calls) > 0 /\ AllIdle /\ LastCall.result = "ok"

KnownRecipient(c) == \E i \in 1..Len(c.before) : wallets[i].publicAddress = c.toAddress

\* what the balances of the wallets that existed when the send c began must
\* be after it: the sender down by amount + fee, the recipient up by amount
BalancesAfterSend(c) ==
    [i \in 1..Len(c.before) |->
        c.before[i] - (IF i = c.wallet THEN c.amount + Fee ELSE 0)
                    + (IF wallets[i].publicAddress = c.toAddress THEN c.amount ELSE 0)]

BalancesNow(c) == [i \in 1..Len(c.before) |-> wallets[i].balance]

\* C1 as stated: after a successful send that overlapped no other send the
\* sender is down by amount + fee, a recipient wallet of the system is up by
\* amount, no other balance changed, and the sum of all balances is down by
\* the fee.
C1_Original ==
    LastSendDone =>
        /\ BalancesNow(LastCall) = BalancesAfterSend(LastCall)
        /\ SumSeq(BalancesNow(LastCall)) = SumSeq(LastCall.before) - Fee

\* C1 amended: as C1, but the sum of all balances is down by the fee when the
\* recipient is a wallet of the system and by amount + fee when it is not.
C1_Conservation ==
    LastSendDone =>
        /\ BalancesNow(LastCall) = BalancesAfterSend(LastCall)
        /\ SumSeq(BalancesNow(LastCall)) =
              SumSeq(LastCall.before)
                - (IF KnownRecipient(LastCall) THEN Fee ELSE LastCall.amount + Fee)

C1_Witness == LastSendDone /\ KnownRecipient(LastCall)

\* C2: two sends from one wallet issued together, each affordable alone and
\* not both: exactly one returns ok, the other fails with
\* InsufficientBalance, and the balance is down by the one debit.
C2_ExactlyOneSucceeds ==
    \A i, j \in 1..Len(calls) :
        LET w == calls[i].wallet
            B == calls[i].before[w]
            di == calls[i].amount + Fee
            dj == calls[j].amount + Fee
        IN (/\ AllIdle /\ Len(calls) = 2
            /\ i \in calls[j].during
            /\ calls[j].wallet = w
            /\ calls[j].before[w] = B
            /\ di <= B /\ dj <= B /\ di + dj > B)
           => \/ /\ calls[i].result = "ok"
                 /\ calls[j].result = "InsufficientBalance"
                 /\ wallets[w].balance = B - di
              \/ /\ calls[j].result = "ok"
                 /\ calls[i].result = "InsufficientBalance"
                 /\ wallets[w].balance = B - dj

\* the balance of wallet w by the calls that returned ok
BalanceByCalls(w) ==
    InitialBalance
      - SumSeq([i \in 1..Len(calls) |->
                  IF calls[i].result = "ok" /\ calls[i].wallet = w
                  THEN calls[i].amount + Fee ELSE 0])
      + SumSeq([i \in 1..Len(calls) |->
                  IF calls[i].result = "ok" /\ calls[i].toAddress = wallets[w].publicAddress
                  THEN calls[i].amount ELSE 0])

\* C3: once every call has finished, each balance is the initial balance
\* minus amount + fee of its successful sends plus amount of the successful
\* sends addressed to it.
C3_NoLostUpdate ==
    AllIdle => \A w \in 1..Len(wallets) : wallets[w].balance = BalanceByCalls(w)

WalletRows(w) == {txs[i] : i \in {j \in 1..Len(txs) : txs[j].wallet = w}}

RECURSIVE SumRows(_)
SumRows(S) ==
    IF S = {} THEN 0
    ELSE LET t == CHOOSE u \in S : TRUE
         IN (IF t.type = "send" THEN 0 - (t.amount + t.fee) ELSE t.amount)
            + SumRows(S \ {t})

\* C4: in every state the rows and the balances agree: a send row is there
\* exactly when its debit is, a receive row exactly when its credit is.
C4_OneTransactionalUnit ==
    \A w \in 1..Len(wallets) :
        /\ wallets[w].balance = InitialBalance + SumRows(WalletRows(w))
        /\ wallets[w].transactionCount = Cardinality(WalletRows(w))

\* C5: a send that failed after its first write left nothing behind: neither
\* its send row nor its receive row is stored.
C5_FailedSendLeavesNothing ==
    \A i \in 1..Len(calls) :
        calls[i].result \notin {"running", "ok"} =>
            \A j \in 1..Len(txs) : txs[j].txId.id # calls[i].txId.id

\* each entry's previousTxHash is the stored hash of the entry before it,
\* null for the first
ChainLinked(chain) ==
    \A i \in 1..Len(chain) :
        chain[i].previousTxHash =
            (IF i = 1 THEN NULL ELSE chain[i - 1].integrityHash)

\* C6: after any sequence of sends that did not overlap, the transactions of
\* every wallet in creation order form a hash chain.
C6_HashChain ==
    \A w \in 1..Len(wallets) : ChainLinked(WalletTxs(txs, w))

C6_Witness ==
    \E w \in 1..Len(wallets) :
        LET chain == WalletTxs(txs, w)
        IN Len(chain) >= 2 /\ chain[1].type = "receive" /\ chain[2].type = "send"

\* C7: no two transactions of a wallet carry the same previousTxHash, and
\* with no edit made in the database verifyTransactionChain reports a valid
\* chain.
C7_ChainNeverForks ==
    \A w \in 1..Len(wallets) :
        /\ \A t, u \in WalletRows(w) : t # u => t.previousTxHash # u.previousTxHash
        /\ verifyTransactionChain(wallets, txs, w, wallets[w].user).chainValid

\* C8: chainValid is true exactly when every entry's recomputed hash is its
\* stored hash and every entry's previousTxHash is the stored hash of the
\* entry before it, null for the first.
C8_ChainValidIff ==
    \A w \in 1..Len(wallets) :
        LET chain == WalletTxs(txs, w)
        IN verifyTransactionChain(wallets, txs, w, wallets[w].user).chainValid
           <=> (ChainLinked(chain)
                /\ \A i \in 1..Len(chain) : txVerifyIntegrity(chain[i]))

\* the place of the forged entry in its wallet's chain
ForgedAt(chain) == CHOOSE k \in 1..Len(chain) : chain[k].txId = ForgedTxId

\* C9: after a transaction with a wrong previousTxHash was spliced in at
\* position k, every entry from k on is reported chain-invalid, every entry
\* before k valid, and the chain invalid.
C9_SpliceInvalidatesSuffix ==
    (Len(tampered) = 1 /\ tampered[1].kind = "splice") =>
        LET w == tampered[1].wallet
            chain == WalletTxs(txs, w)
            k == ForgedAt(chain)
            r == verifyTransactionChain(wallets, txs, w, wallets[w].user)
        IN /\ \A i \in 1..Len(chain) :
                 IF i >= k THEN ~r.results[i].chainLinkValid
                 ELSE r.results[i].chainLinkValid /\ r.results[i].integrityValid
           /\ ~r.chainValid

\* the number of rows the finished calls should have stored for wallet w
RowsByCalls(w) ==
    Cardinality({i \in 1..Len(calls) : calls[i].wallet = w})
      + Cardinality({i \in 1..Len(calls) :
                       calls[i].toAddress = wallets[w].publicAddress})

\* C10: for a wallet whose N transactions all come from sends that did not
\* overlap, with no edit in the database, verifyTransactionChain counts N
\* entries, reports each with a valid hash and a valid link, and reports the
\* chain valid.
C10_UntamperedChainVerifies ==
    \A w \in 1..Len(wallets) :
        LET r == verifyTransactionChain(wallets, txs, w, wallets[w].user)
        IN /\ r.error = "none"
           /\ AllIdle => r.totalTransactions = RowsByCalls(w)
           /\ \A i \in 1..Len(r.results) :
                 r.results[i].integrityValid /\ r.results[i].chainLinkValid
           /\ r.chainValid

C10_Witness ==
    /\ AllIdle
    /\ \E w \in 1..Len(wallets) :
          LET r == verifyTransactionChain(wallets, txs, w, wallets[w].user)
          IN r.totalTransactions = 2 /\ r.chainValid
             /\ \E t \in WalletRows(w) : t.type = "receive"

\* C11: for a wallet whose stored hash was valid, while an edit of its stored
\* balance is in place verifyWalletIntegrity returns isValid = false, and
\* once the original balance is written back it returns isValid = true.
C11_BalanceTamperDetected ==
    \A e \in 1..Len(tampered) :
        LET t == tampered[e]
            w == t.wallet
        IN (t.kind = "walletBalance" /\ walletVerifyIntegrity(t.before)) =>
              /\ (/\ ~t.restored
                  /\ wallets[w].balance # t.before.balance
                  /\ wallets[w] = [t.before EXCEPT !.balance = wallets[w].balance])
                 => ~verifyWalletIntegrity(wallets, w).isValid
              /\ (t.restored /\ wallets[w] = t.before)
                 => verifyWalletIntegrity(wallets, w).isValid

C11_Witness ==
    \E e \in 1..Len(tampered) :
        /\ tampered[e].kind = "walletBalance"
        /\ tampered[e].restored
        /\ tampered[e].before.transactionCount > 0
        /\ wallets[tampered[e].wallet] = tampered[e].before

\* the stored transaction with the given id, as a set
TxById(txId) == {txs[i] : i \in {j \in 1..Len(txs) : txs[j].txId = txId}}

\* C13: while an edit of one stored field of a wallet or of a transaction is
\* in place, the record's verifyIntegrity returns false.
C13_AnyEditDetected ==
    \A e \in 1..Len(tampered) :
        LET t == tampered[e]
        IN /\ (t.kind \in {"walletBalance", "walletStatus"} /\ ~t.restored
               /\ walletVerifyIntegrity(t.before))
              => ~walletVerifyIntegrity(wallets[t.wallet])
           /\ (t.kind = "txField" /\ txVerifyIntegrity(t.before))
              => \A u \in TxById(t.txId) : ~txVerifyIntegrity(u)

\* C12: with no edit made in the database, after any sequence of
\* createWallet, sends (debit and credit), updateWallet and archiveWallet
\* every wallet's stored hash is the hash of its current fields:
\* verifyWalletIntegrity returns isValid = true.
C12_WalletHashMaintained ==
    \A w \in 1..Len(wallets) :
        /\ wallets[w].integrityHash = walletIntegrityHash(wallets[w])
        /\ verifyWalletIntegrity(wallets, w).isValid

C12_Witness ==
    \E w \in 1..Len(wallets) :
        /\ wallets[w].status = "archived"
        /\ wallets[w].balance > InitialBalance
        /\ \E v \in 1..Len(wallets) : wallets[v].balance < InitialBalance
        /\ AllIdle

\* the fields of a wallet document that hold no secret
PublicWalletFields ==
    {"user", "publicAddress", "publicKey", "storageType", "balance", "status",
     "transactionCount", "createdAt", "integrityHash"}

\* C14: in every state a wallet holds an encrypted private key exactly when
\* it is hot; a cold wallet's document holds nothing but its public fields.
C14_KeyStoredIffHot ==
    \A w \in 1..Len(wallets) :
        /\ (wallets[w].encryptedPrivateKey # NULL) <=> (wallets[w].storageType = "hot")
        /\ wallets[w].storageType = "cold" =>
              /\ wallets[w].encryptedPrivateKey = NULL
              /\ DOMAIN wallets[w] \ {"encryptedPrivateKey"} = PublicWalletFields

C14_Witness ==
    \E w \in 1..Len(wallets) :
        /\ wallets[w].storageType = "cold"
        /\ wallets[w].transactionCount > 0
        /\ wallets[w].status # "active"
        /\ \E v \in 1..Len(wallets) : wallets[v].storageType = "hot"

\* C15: createWallet returns privateKey and privateKeyWIF exactly for a cold
\* wallet; afterwards getPrivateKey on a cold wallet fails and returns no
\* key for any caller, getWalletById returns a document without a key, and
\* what createTransaction returns for the wallet's sends holds no key.
C15_ColdKeyDisclosedOnce ==
    \A w \in 1..Len(wallets) :
        LET created == newWallet(w, wallets[w].user, wallets[w].storageType)
            cold == wallets[w].storageType = "cold"
        IN /\ (createWalletResponse(created).privateKey # NoKey) <=> cold
           /\ (createWalletResponse(created).privateKeyWIF # NoKey) <=> cold
           /\ cold => createWalletResponse(created).privateKey = HexKey(wallets[w].publicKey)
           /\ cold =>
                 /\ \A userId \in Users :
                       /\ getPrivateKey(wallets, w, userId).error # "none"
                       /\ getPrivateKey(wallets, w, userId).privateKey = NoKey
                       /\ DOMAIN getWalletById(wallets, w, userId).wallet
                             \subseteq PublicWalletFields
                 /\ getPrivateKey(wallets, w, wallets[w].user).error = "ColdWallet"
                 /\ \A t \in WalletRows(w) :
                       DOMAIN createTransactionResponse(t) =
                          {"transaction", "message", "newBalance"}

C15_Witness ==
    \E w \in 1..Len(wallets) :
        /\ wallets[w].storageType = "cold"
        /\ \E t \in WalletRows(w) : t.type = "send"
        /\ getPrivateKey(wallets, w, wallets[w].user).error = "ColdWallet"

\* the wallet is a cold wallet the caller may send from
ColdSender(userId, walletId) ==
    /\ walletId \in 1..Len(wallets)
    /\ wallets[walletId].user = userId
    /\ wallets[walletId].status = "active"
    /\ wallets[walletId].storageType = "cold"

\* no key, or the key of another key pair
MissingOrNonMatching(privateKey, walletId) ==
    privateKey = NoKey \/ Address(privateKey.k) # wallets[walletId].publicAddress

\* the checks createTransaction makes before it looks at the key all pass
EarlierChecksPass(walletId, toAddress, amount) ==
    /\ toAddress.kind = "p2pkh"
    /\ toAddress # wallets[walletId].publicAddress
    /\ wallets[walletId].balance >= amount + Fee

\* a request in progress from a cold wallet signs with the wallet's own key
ColdSendsSignedByOwnKey ==
    \A p \in Procs :
        (proc[p].pc # "idle"
         /\ wallets[calls[proc[p].call].wallet].storageType = "cold")
        => /\ proc[p].signingKey.fmt = "hex"
           /\ Address(proc[p].signingKey.k) =
                 wallets[calls[proc[p].call].wallet].publicAddress

\* a rejection with one of the given errors stores nothing and changes no
\* wallet
RejectionChangesNothing(errors) ==
    (lastError = "none" /\ lastError' \in errors) => UNCHANGED <<wallets, txs>>

Untouched(w) ==
    \A i \in 1..Len(calls) :
        calls[i].wallet # w /\ calls[i].toAddress # wallets[w].publicAddress

\* the only send so far has returned; it was made from a hot wallet to an
\* address of no wallet of the system
FirstSendToForeignDone ==
    /\ Len(calls) = 1
    /\ AllIdle
    /\ calls[1].result = "ok"
    /\ wallets[calls[1].wallet].storageType = "hot"
    /\ \A i \in 1..Len(wallets) : wallets[i].publicAddress # calls[1].toAddress

\* C17: a new wallet has balance 100000000, status active, transactionCount
\* 0 and a valid hash; after a first send of a from a hot wallet to an
\* address of no wallet the sender holds 100000000 - a - 10000 (99940000 for
\* a = 50000) and one send transaction is stored, confirmed, with
\* balanceAfter equal to that balance.
C17_FirstSend ==
    /\ \A w \in 1..Len(wallets) :
          Untouched(w) =>
             /\ wallets[w].balance = 100000000
             /\ wallets[w].status = "active"
             /\ wallets[w].transactionCount = 0
             /\ verifyWalletIntegrity(wallets, w).isValid
    /\ FirstSendToForeignDone =>
          LET c == calls[1]
          IN /\ wallets[c.wallet].balance = 100000000 - c.amount - 10000
             /\ c.amount = 50000 => wallets[c.wallet].balance = 99940000
             /\ Len(txs) = 1
             /\ txs[1].wallet = c.wallet
             /\ txs[1].type = "send"
             /\ txs[1].status = "confirmed"
             /\ txs[1].amount = c.amount
             /\ txs[1].balanceAfter = wallets[c.wallet].balance

C17_Witness ==
    /\ FirstSendToForeignDone
    /\ calls[1].amount = 50000
    /\ \E w \in 1..Len(wallets) : Untouched(w)

\* C18: createTransaction fails with WalletNotFound whenever the sender
\* wallet does not exist or is not active, whatever the other arguments, and
\* then stores no transaction and changes no balance.
C18_InactiveSenderRejected ==
    /\ [](\A userId \in Users, walletId \in 1..MaxWallets,
             toAddress \in ToAddresses, amount \in Amounts :
             \A privateKey \in PrivateKeys(walletId) :
                 (walletId > Len(wallets) \/ wallets[walletId].status # "active")
                 => validateSend(wallets, userId, walletId, toAddress, amount,
                                 privateKey) = "WalletNotFound")
    /\ [][RejectionChangesNothing({"WalletNotFound"})]_vars

\* a send was rejected when no wallet was active
C18_Witness ==
    /\ lastError = "WalletNotFound"
    /\ Len(wallets) = MaxWallets
    /\ \A w \in 1..Len(wallets) : wallets[w].status # "active"
    /\ \E w \in 1..Len(wallets) : wallets[w].status = "archived"
    /\ \E w \in 1..Len(wallets) : wallets[w].status = "frozen"

\* the error the first failing check gives, in the order wallet, address,
\* self-transfer, balance; "later" when all four pass
FirstFailingCheck(userId, walletId, toAddress, amount) ==
    IF ~(walletId \in 1..Len(wallets) /\ wallets[walletId].user = userId
         /\ wallets[walletId].status = "active")
    THEN "WalletNotFound"
    ELSE IF toAddress.kind # "p2pkh" THEN "InvalidAddress"
    ELSE IF toAddress = wallets[walletId].publicAddress THEN "SelfTransferRejected"
    ELSE IF wallets[walletId].balance < amount + Fee THEN "InsufficientBalance"
    ELSE "later"

SigningKeyOutcomes ==
    {"ok", "DecryptionFailed", "PrivateKeyRequired", "InvalidPrivateKeyFormat",
     "InvalidPrivateKey"}

C20_InsufficientIffBelowTotal ==
    /\ \A userId \in Users, walletId \in 1..MaxWallets,
          toAddress \in ToAddresses, amount \in EdgeAmounts :
          \A privateKey \in PrivateKeys(walletId) :
              FirstFailingCheck(userId, walletId, toAddress, amount)
                  \in {"InsufficientBalance", "later"}
              => (validateSend(wallets, userId, walletId, toAddress, amount,
                               privateKey) = "InsufficientBalance"
                  <=> wallets[walletId].balance < amount + 10000)
    /\ \A i \in 1..Len(calls) :
          /\ calls[i].result \in {"running", "ok"}
          /\ calls[i].before[calls[i].wallet] >= calls[i].amount + 10000
    /\ LastSendDone =>
          (LastCall.before[LastCall.wallet] = LastCall.amount + 10000
           => wallets[LastCall.wallet].balance = 0)

\* a send of the whole balance went through and a send of one satoshi more
\* than a balance was rejected
C20_Witness ==
    /\ lastError = "InsufficientBalance"
    /\ \E i \in 1..Len(calls) :
          /\ calls[i].result = "ok"
          /\ calls[i].before[calls[i].wallet] = calls[i].amount + 10000
          /\ wallets[calls[i].wallet].balance = 0
    /\ \E w \in 1..Len(wallets) : wallets[w].balance = InitialBalance

\* a step of the service, not an edit in the database, leaves the stored
\* hash and the hashed fields of every stored transaction as they were
HashWrittenOnce ==
    Len(tampered') = Len(tampered) =>
        \A i \in 1..Len(txs) :
            /\ txs'[i].integrityHash = txs[i].integrityHash
            /\ txIntegrityHash(txs'[i]) = txIntegrityHash(txs[i])

\* C21: a transaction's integrityHash is set when the document is first
\* saved and no later operation rewrites it; simulateConfirmation and
\* markAsFailed leave it and every hashed field unchanged, so an untampered
\* transaction verifies after any number of them.
C21_TxHashComputedOnce ==
    /\ [](Len(tampered) = 0 => \A i \in 1..Len(txs) : txVerifyIntegrity(txs[i]))
    /\ [][HashWrittenOnce]_vars

C21_Witness ==
    /\ Len(tampered) = 0
    /\ \E i \in 1..Len(txs) :
          /\ txs[i].status = "failed"
          /\ txs[i].confirmations \in 1..5
          /\ txVerifyIntegrity(txs[i])

\* C22: the status of a stored transaction only moves pending -> confirmed
\* or pending -> failed; confirmed and failed are terminal.
C22_StatusTerminal ==
    [][\A i \in 1..Len(txs) :
          /\ txs[i].status = "confirmed" => txs'[i].status = "confirmed"
          /\ txs[i].status = "failed" => txs'[i].status = "failed"
          /\ txs[i].status = "pending" =>
                txs'[i].status \in {"pending", "confirmed", "failed"}]_vars

\* C23: a cold-wallet send given the wallet's own key in WIF form, as
\* createWallet returned it, is accepted exactly as when given the hex form.
C23_WifAcceptedAsHex ==
    \A w \in 1..Len(wallets), toAddress \in ToAddresses, amount \in Amounts :
        ColdSender(wallets[w].user, w) =>
            validateSend(wallets, wallets[w].user, w, toAddress, amount,
                         createWalletResponse(wallets[w]).privateKeyWIF)
            = validateSend(wallets, wallets[w].user, w, toAddress, amount,
                           createWalletResponse(wallets[w]).privateKey)

\* the fields of a wallet that updateWallet and archiveWallet must leave
WalletCore(w) ==
    <<w.balance, w.publicAddress, w.publicKey, w.storageType, w.encryptedPrivateKey,
      w.transactionCount, w.integrityHash>>

\* the step is the wallet.save() of updateBalance of a send in progress
IsBalanceSave ==
    \E p \in Procs : proc[p].pc \in {"debitSave", "creditSave"} /\ proc'[p] # proc[p]

\* C24: no operation removes a wallet; only the balance update of a send
\* changes a balance; updateWallet and archiveWallet leave balance,
\* publicAddress, publicKey, storageType, encryptedPrivateKey,
\* transactionCount and integrityHash as they were, whatever the caller
\* supplies.
C24_WalletKeptAndBalanceBySendOnly ==
    [][/\ Len(wallets') >= Len(wallets)
       /\ \A w \in 1..Len(wallets) :
             /\ wallets'[w].publicAddress = wallets[w].publicAddress
             /\ wallets'[w].balance # wallets[w].balance => IsBalanceSave
             /\ proc' = proc => WalletCore(wallets'[w]) = WalletCore(wallets[w])]_vars

C24_Witness ==
    /\ AllIdle
    /\ \E w \in 1..Len(wallets) :
          wallets[w].status = "archived" /\ wallets[w].transactionCount > 0
    /\ \E w \in 1..Len(wallets) :
          wallets[w].status = "frozen" /\ wallets[w].balance = InitialBalance

\* C25: in every reachable state, under any interleaving of concurrent sends
\* and receives, the balance of every wallet is at least 0.
C25_BalanceNeverNegative ==
    \A w \in 1..Len(wallets) : wallets[w].balance >= 0

\* two overlapping sends that together exceed the balance: one was stopped by
\* the re-check of updateBalance, the other debited the wallet
C25_Witness ==
    /\ AllIdle
    /\ \E i, j \in 1..Len(calls) :
          /\ calls[i].wallet = calls[j].wallet
          /\ i \in calls[j].during
          /\ {calls[i].result, calls[j].result} = {"ok", "InsufficientBalance"}
          /\ wallets[calls[i].wallet].balance < InitialBalance

\* C26: whenever no send is in progress, transactionCount of every wallet is
\* the number of transaction documents stored for it, also after sends that
\* failed part-way and after sends that overlapped.
C26_CountMatchesRows ==
    AllIdle =>
        \A w \in 1..Len(wallets) :
            wallets[w].transactionCount = Len(WalletTxs(txs, w))

\* the most recently created transaction of a wallet
LatestTx(w) == WalletTxs(txs, w)[Len(WalletTxs(txs, w))]

\* C27: whenever no send is in progress, balanceAfter of the most recently
\* created transaction of every wallet that has one is the stored balance of
\* that wallet, also when sends overlapped.
C27_LatestBalanceAfter ==
    AllIdle =>
        \A w \in 1..Len(wallets) :
            Len(WalletTxs(txs, w)) > 0 => LatestTx(w).balanceAfter = wallets[w].balance

\* C28: the balance and the transactions of a wallet whose status is archived
\* or frozen never change: a send addressed to such a wallet adds no receive
\* row to it and credits nothing.
C28_InactiveWalletUntouched ==
    [][\A w \in 1..Len(wallets) :
          wallets[w].status \in {"archived", "frozen"} =>
              /\ wallets'[w].balance = wallets[w].balance
              /\ WalletTxs(txs', w) = WalletTxs(txs, w)]_vars

\* C29: only its owner's createTransaction debits a wallet: a send that
\* names another user's wallet fails with WalletNotFound; and for a wallet
\* that is not the caller's verifyTransactionChain and getWalletTransactions
\* fail and verifyWalletIntegrity returns no result.
C29_OwnerOnly ==
    /\ \A i \in 1..Len(calls) : calls[i].user = wallets[calls[i].wallet].user
    /\ \A userId \in Users, w \in 1..Len(wallets) :
          wallets[w].user # userId =>
              /\ \A toAddress \in ToAddresses, amount \in Amounts,
                    privateKey \in PrivateKeys(w) :
                     validateSend(wallets, userId, w, toAddress, amount, privateKey)
                         = "WalletNotFound"
              /\ verifyTransactionChain(wallets, txs, w, userId).error = "WalletNotFound"
              /\ getWalletTransactions(wallets, txs, w, userId).error = "WalletNotFound"
              /\ verifyWallet(wallets, userId, w).error # "none"

\* every token was generated on a document whose isVerified was true, and
\* its user, while stored, is verified
TokensOnlyForVerified ==
    \A t \in issued :
        /\ t.verified
        /\ (users[t.email].exists /\ users[t.email].id = t.id)
               => users[t.email].isVerified

\* no response of register carries a token
RegisterReturnsNoToken ==
    \A p \in AuthProcs : authProc[p].handler = "register" => ~authProc[p].token

\* a login for a stored, unverified user is answered 403 at once
UnverifiedLoginRefused ==
    \A p \in AuthProcs :
        (/\ authProc[p].pc = "idle"
         /\ authProc'[p] # authProc[p]
         /\ authProc'[p].handler = "login"
         /\ users[authProc'[p].email].exists
         /\ ~users[authProc'[p].email].isVerified)
        => (authProc'[p].pc = "idle" /\ authProc'[p].status = 403
            /\ ~authProc'[p].token)

\* verifyOTP goes on to its save only for the code now stored, unexpired
OnlyCurrentCodePasses ==
    \A p \in AuthProcs :
        (authProc[p].pc = "idle" /\ authProc'[p].pc = "verifySave")
        => LET user == users[authProc'[p].email]
           IN /\ user.exists /\ ~user.isVerified
              /\ user.otp \in Otps
              /\ user.otp = trim(authProc'[p].otp)
              /\ user.otpExpiry >= clock

\* isVerified turns true only in the save of such a verifyOTP, which clears
\* the code and answers 200
VerifiedOnlyByVerifyOTP ==
    \A e \in Emails :
        (/\ users'[e].exists /\ users'[e].isVerified
         /\ ~(users[e].exists /\ users[e].id = users'[e].id /\ users[e].isVerified))
        => \E p \in AuthProcs :
              /\ authProc[p].pc = "verifySave" /\ authProc[p].email = e
              /\ authProc'[p].status = 200 /\ authProc'[p].token
              /\ users'[e].otp = "undefined" /\ users'[e].otpExpiry = 0

\* isVerified of a stored user does not return to false
NeverUnverified ==
    \A e \in Emails :
        (/\ users[e].exists /\ users[e].isVerified
         /\ users'[e].exists /\ users'[e].id = users[e].id)
        => users'[e].isVerified

====
